---- MODULE Spec2Model ----
(***************************************************************************)
(* Verification model of the battle_scoring and leaderboard contracts.     *)
(*                                                                         *)
(* Every quantity of the two crates is an alloy_primitives::U256.  Its     *)
(* operators +, -, * are the wrapping ones (mod 2^256) and / panics on a   *)
(* zero divisor.  A U256 is modelled as a natural number written in base   *)
(* 2^15, least significant limb first, without leading zero limbs, so      *)
(* that 10^18-scaled products and values close to 2^256 are exact.         *)
(***************************************************************************)
EXTENDS Integers, Sequences, FiniteSets, TLC

\* ------------------------------------------------------------------------
\* Natural numbers of any size (limb sequences, base 2^15).
\* ------------------------------------------------------------------------

Base == 2^15

Min(x, y) == IF x <= y THEN x ELSE y

Max(x, y) == IF x >= y THEN x ELSE y

Zero == <<>>

IsZero(a) == a = Zero

Limb(a, i) == IF i <= Len(a) THEN a[i] ELSE 0

\* the number of limbs up to the most significant nonzero one
Top(s) ==
    IF \A i \in 1..Len(s) : s[i] = 0 THEN 0
    ELSE CHOOSE i \in 1..Len(s) : s[i] # 0 /\ \A j \in (i + 1)..Len(s) : s[j] = 0

\* strip the zero limbs at the most significant end
Norm(s) == SubSeq(s, 1, Top(s))

RECURSIVE N(_)
\* U256::from(n) for a machine integer n
N(n) == IF n = 0 THEN <<>> ELSE <<n % Base>> \o N(n \div Base)

\* a < b
Lt(a, b) ==
    IF Len(a) # Len(b) THEN Len(a) < Len(b)
    ELSE \E i \in 1..Len(a) :
            a[i] < b[i] /\ \A k \in (i + 1)..Len(a) : a[k] = b[k]

\* a <= b
Le(a, b) == ~Lt(b, a)

\* the carry into limb i of a + b
Carry(a, b, i) ==
    \E j \in 1..(i - 1) :
        /\ Limb(a, j) + Limb(b, j) >= Base
        /\ \A k \in (j + 1)..(i - 1) : Limb(a, k) + Limb(b, k) = Base - 1

\* a + b, exact
AddN(a, b) ==
    Norm([i \in 1..(Max(Len(a), Len(b)) + 1) |->
            (Limb(a, i) + Limb(b, i) + (IF Carry(a, b, i) THEN 1 ELSE 0)) % Base])

\* the borrow out of the limbs below limb i of a - b
Borrow(a, b, i) ==
    \E j \in 1..(i - 1) :
        /\ Limb(a, j) < Limb(b, j)
        /\ \A k \in (j + 1)..(i - 1) : Limb(a, k) = Limb(b, k)

\* a - b, exact, for b <= a
SubN(a, b) ==
    Norm([i \in 1..Len(a) |->
            (a[i] - Limb(b, i) - (IF Borrow(a, b, i) THEN 1 ELSE 0) + Base) % Base])

\* x * Base^m
ShiftLimbs(x, m) == IF Top(x) = 0 THEN Zero ELSE [i \in 1..m |-> 0] \o x

\* a * k, exact, for one limb k: the low halves of the limb products plus the
\* high halves one limb up
MulSmall(a, k) ==
    AddN([i \in 1..Len(a) |-> (a[i] * k) % Base],
         ShiftLimbs([i \in 1..Len(a) |-> (a[i] * k) \div Base], 1))

RECURSIVE MulRange(_, _, _, _)
\* a * (limbs lo..hi of b, in place)
MulRange(a, b, lo, hi) ==
    IF lo = hi THEN ShiftLimbs(MulSmall(a, b[lo]), lo - 1)
    ELSE AddN(MulRange(a, b, lo, (lo + hi) \div 2),
              MulRange(a, b, (lo + hi) \div 2 + 1, hi))

\* a * b, exact
MulN(a, b) == IF IsZero(a) \/ IsZero(b) THEN Zero ELSE MulRange(a, b, 1, Len(b))

Reverse(s) == [i \in 1..Len(s) |-> s[Len(s) + 1 - i]]

RECURSIVE DivSmallR(_, _, _, _)
\* the quotient's digits, most significant first; r is the running remainder
DivSmallR(a, k, i, r) ==
    IF i = 0 THEN <<>>
    ELSE <<(r * Base + a[i]) \div k>>
             \o DivSmallR(a, k, i - 1, (r * Base + a[i]) % k)

\* floor(a / k) for one nonzero limb k
DivSmall(a, k) == Norm(Reverse(DivSmallR(a, k, Len(a), 0)))

RECURSIVE FixDigit(_, _, _)
\* the largest q <= est with q * d <= r
FixDigit(r, d, q) == IF Lt(r, MulSmall(d, q)) THEN FixDigit(r, d, q - 1) ELSE q

\* the quotient digit floor(r / d), for r < d * Base and d of two limbs or more
QDigit(r, d) ==
    IF Lt(r, d) THEN 0
    ELSE FixDigit(r, d, Min(Base - 1,
                            (Limb(r, Len(d) + 1) * Base + r[Len(d)]) \div d[Len(d)]))

RECURSIVE LongDiv(_, _, _, _)
\* schoolbook division, most significant limb of a first; r is the running
\* remainder; the quotient's digits come out most significant first
LongDivStep(a, d, i, r1, q) ==
    <<q>> \o LongDiv(a, d, i - 1, SubN(r1, MulSmall(d, q)))

LongDivQ(a, d, i, r1) == LongDivStep(a, d, i, r1, QDigit(r1, d))

LongDiv(a, d, i, r) ==
    IF i = 0 THEN <<>> ELSE LongDivQ(a, d, i, Norm(<<a[i]>> \o r))

LongDivScaled(a, d) == Norm(Reverse(LongDiv(a, d, Len(a), Zero)))

\* floor(a / b), exact, for b # 0.  Both are first scaled by the same limb so
\* that the divisor's top limb is large and the digit estimate is near.
DivN(a, b) ==
    IF Len(b) = 1 THEN DivSmall(a, b[1])
    ELSE LongDivScaled(MulSmall(a, Base \div (b[Len(b)] + 1)),
                       MulSmall(b, Base \div (b[Len(b)] + 1)))

\* ------------------------------------------------------------------------
\* U256: the operators of alloy_primitives::U256.
\* ------------------------------------------------------------------------

\* 2^256 = 2 * (2^15)^17
TwoTo256 == [i \in 1..18 |-> IF i = 18 THEN 2 ELSE 0]

\* U256::MAX
UMax == SubN(TwoTo256, N(1))

\* x mod 2^256
Wrap(x) ==
    IF Len(x) <= 17 THEN x
    ELSE Norm(SubSeq(x, 1, 17) \o <<x[18] % 2>>)

\* the outcome of a call that panics
Panic == <<-1>>

UAdd(a, b) == Wrap(AddN(a, b))

USub(a, b) == IF Le(b, a) THEN SubN(a, b) ELSE SubN(AddN(a, TwoTo256), b)

UMul(a, b) == Wrap(MulN(a, b))

UDiv(a, b) == IF IsZero(b) THEN Panic ELSE DivN(a, b)

\* ------------------------------------------------------------------------
\* battle_scoring: the pure scoring functions.
\* ------------------------------------------------------------------------

\* 1e18
SCORE_DECIMALS == MulN(N(1000000000), N(1000000000))

MAX_BPS == 10000

TIGHT_RANGE_THRESHOLD == 100

\* 0.2 * 1e18
TIGHT_RANGE_BONUS == MulN(N(200000000), N(1000000000))

\* faulty variant of range_bonus: the bonus grows with the tick distance
range_bonus_widening(tick_distance) ==
    IF Lt(tick_distance, N(TIGHT_RANGE_THRESHOLD))
    THEN UDiv(UMul(TIGHT_RANGE_BONUS, tick_distance), N(TIGHT_RANGE_THRESHOLD))
    ELSE Zero

\* max_bonus * (threshold - tick_distance) / threshold, or zero from the
\* threshold on
range_bonus(tick_distance) ==
    IF Lt(tick_distance, N(TIGHT_RANGE_THRESHOLD))
    THEN UDiv(UMul(TIGHT_RANGE_BONUS,
                   USub(N(TIGHT_RANGE_THRESHOLD), tick_distance)),
              N(TIGHT_RANGE_THRESHOLD))
    ELSE Zero

\* (in_range_time * 1e18) / total_time
range_base(in_range_time, total_time) ==
    UDiv(UMul(in_range_time, SCORE_DECIMALS), total_time)

\* base_score + (base_score * bonus / 1e18)
range_final(base_score, bonus) ==
    UAdd(base_score, UDiv(UMul(base_score, bonus), SCORE_DECIMALS))

range_score(in_range_time, total_time, tick_distance) ==
    IF IsZero(total_time) THEN Zero
    ELSE range_final(range_base(in_range_time, total_time),
                     range_bonus(tick_distance))

\* faulty variant of fee_score: divides by lp_value_usd, then multiplies by
\* duration
fee_score_times_duration(fees_usd, lp_value_usd, duration) ==
    IF IsZero(lp_value_usd) \/ IsZero(duration) THEN Zero
    ELSE UMul(UDiv(UMul(fees_usd, SCORE_DECIMALS), lp_value_usd), duration)

fee_score(fees_usd, lp_value_usd, duration) ==
    IF IsZero(lp_value_usd) \/ IsZero(duration) THEN Zero
    ELSE UDiv(UMul(fees_usd, SCORE_DECIMALS), UMul(lp_value_usd, duration))

\* faulty variant of winner: a tie goes to B
winner_strict(score_a, score_b) == IF Lt(score_b, score_a) THEN 1 ELSE 2

\* 1 = player A, 2 = player B
winner(score_a, score_b) == IF Le(score_b, score_a) THEN 1 ELSE 2

\* faulty variant of rewards_split: the resolver's share is not deducted
rewards_split_undeducted(total_fees, resolver_amount) ==
    <<total_fees, resolver_amount>>

rewards_split(total_fees, resolver_amount) ==
    <<USub(total_fees, resolver_amount), resolver_amount>>

\* <<winner_amount, resolver_amount>>
rewards(total_fees, resolver_bps) ==
    IF Le(N(MAX_BPS), resolver_bps) THEN <<Zero, total_fees>>
    ELSE rewards_split(total_fees,
                       UDiv(UMul(total_fees, resolver_bps), N(MAX_BPS)))

\* ------------------------------------------------------------------------
\* leaderboard: the pure ELO calculation.
\* ------------------------------------------------------------------------

DEFAULT_ELO == 1000

K_FACTOR == 32

ELO_SCALE == 1000

ELO_SPREAD == 400

MIN_ELO == 100

half_scale == UDiv(N(ELO_SCALE), N(2))

spread4 == N(ELO_SPREAD * 4)

\* faulty variant of elo_slope: the divisor is ELO_SPREAD, not 4 * ELO_SPREAD
elo_slope_narrow(diff) == UDiv(UMul(diff, N(ELO_SCALE)), N(ELO_SPREAD))

\* (diff * scale) / spread4
elo_slope(diff) == UDiv(UMul(diff, N(ELO_SCALE)), spread4)

\* faulty variant of expected_favorite: the score is not clamped at scale
expected_favorite_unclamped(bonus) == UAdd(half_scale, bonus)

\* half_scale + bonus, clamped at scale
expected_favorite(bonus) ==
    IF Lt(N(ELO_SCALE), UAdd(half_scale, bonus))
    THEN N(ELO_SCALE)
    ELSE UAdd(half_scale, bonus)

\* faulty variant of expected_underdog: the penalty is dropped
expected_underdog_flat(penalty) == half_scale

\* half_scale - penalty, clamped at zero
expected_underdog(penalty) ==
    IF Le(half_scale, penalty) THEN Zero ELSE USub(half_scale, penalty)

\* the winner's expected score, out of ELO_SCALE
expected_winner(winner_elo, loser_elo) ==
    IF Le(loser_elo, winner_elo)
    THEN expected_favorite(elo_slope(USub(winner_elo, loser_elo)))
    ELSE expected_underdog(elo_slope(USub(loser_elo, winner_elo)))

\* faulty variant of raw_winner_gain: the division rounds up
raw_winner_gain_rounded_up(winner_elo, loser_elo) ==
    UDiv(UAdd(UMul(N(K_FACTOR),
                   USub(N(ELO_SCALE), expected_winner(winner_elo, loser_elo))),
              N(ELO_SCALE - 1)),
         N(ELO_SCALE))

\* K * (SCALE - expected) / SCALE, before the minimum of 1 is forced
raw_winner_gain(winner_elo, loser_elo) ==
    UDiv(UMul(N(K_FACTOR),
              USub(N(ELO_SCALE), expected_winner(winner_elo, loser_elo))),
         N(ELO_SCALE))

\* faulty variant of loser_loss: K * expected_winner / SCALE
loser_loss_of_winner(winner_elo, loser_elo) ==
    UDiv(UMul(N(K_FACTOR), expected_winner(winner_elo, loser_elo)),
         N(ELO_SCALE))

\* K * expected_loser / SCALE with expected_loser = SCALE - expected_winner
loser_loss(winner_elo, loser_elo) ==
    UDiv(UMul(N(K_FACTOR),
              USub(N(ELO_SCALE), expected_winner(winner_elo, loser_elo))),
         N(ELO_SCALE))

\* faulty variant of winner_gain: no minimum gain is forced
winner_gain_unforced(winner_elo, loser_elo) ==
    raw_winner_gain(winner_elo, loser_elo)

\* the winner always gains at least 1
winner_gain(winner_elo, loser_elo) ==
    IF IsZero(raw_winner_gain(winner_elo, loser_elo))
    THEN N(1)
    ELSE raw_winner_gain(winner_elo, loser_elo)

\* faulty variant of floor_loser: the rating is floored at zero, not MIN_ELO
floor_loser_at_zero(loser_elo, loss) ==
    IF Lt(loss, loser_elo) THEN USub(loser_elo, loss) ELSE Zero

\* floor at MIN_ELO
floor_loser(loser_elo, loss) ==
    IF Lt(UAdd(loss, N(MIN_ELO)), loser_elo)
    THEN USub(loser_elo, loss)
    ELSE N(MIN_ELO)

\* <<new_winner_elo, new_loser_elo>>
calculate_new_elo(winner_elo, loser_elo) ==
    <<UAdd(winner_elo, winner_gain(winner_elo, loser_elo)),
      floor_loser(loser_elo, loser_loss(winner_elo, loser_elo))>>

\* ------------------------------------------------------------------------
\* State.
\* ------------------------------------------------------------------------

VARIABLES
    \* a call of one of the pure functions: its name, its arguments, whether
    \* it has returned, and what it returned
    fn, args, called, out,
    \* the two ratings and the loop counter of the alternating-wins simulation
    rating_a, rating_b, rounds,
    \* the storage of the Leaderboard contract
    arena, owner, elo_ratings, wins, losses, total_battles, total_value_won,
    initialized, player_count,
    \* history: the players named in an accepted record_result, how often
    \* each player's rating was set to DEFAULT_ELO, and the number of accepted
    \* record_result calls
    seen, default_sets, battles

callVars == <<fn, args, called, out>>

matchVars == <<rating_a, rating_b, rounds>>

storageVars == <<arena, owner, elo_ratings, wins, losses, total_battles,
                 total_value_won, initialized, player_count>>

historyVars == <<seen, default_sets, battles>>

vars == <<callVars, matchVars, storageVars, historyVars>>

\* ------------------------------------------------------------------------
\* Bounds and input samples.
\* ------------------------------------------------------------------------

\* addresses are 0..NumAddr; 0 is Address::ZERO
NumAddr == 2

Addr == 0..NumAddr

ZERO_ADDRESS == 0

\* every value 0..n
Small(n) == {N(t) : t \in 0..n}

\* the n + 1 values ending at x
Below(x, n) == {SubN(x, N(t)) : t \in 0..n}

\* 2^255
TwoTo255 == DivSmall(TwoTo256, 2)

\* ------------------------------------------------------------------------
\* Initial values of the parts a specification does not use.
\* ------------------------------------------------------------------------

NoCall == fn = "none" /\ args = <<>> /\ called = FALSE /\ out = <<>>

NoMatch == rating_a = Zero /\ rating_b = Zero /\ rounds = 0

\* storage of a freshly deployed contract: every slot is zero
FreshStorage ==
    /\ arena = ZERO_ADDRESS
    /\ owner = ZERO_ADDRESS
    /\ elo_ratings = [p \in Addr |-> Zero]
    /\ wins = [p \in Addr |-> Zero]
    /\ losses = [p \in Addr |-> Zero]
    /\ total_battles = [p \in Addr |-> Zero]
    /\ total_value_won = [p \in Addr |-> Zero]
    /\ initialized = [p \in Addr |-> FALSE]
    /\ player_count = Zero

NoHistory ==
    /\ seen = {}
    /\ default_sets = [p \in Addr |-> 0]
    /\ battles = 0

\* a pure function about to be called on one of the given argument tuples
PureInit(name, inputs) ==
    /\ fn = name
    /\ args \in inputs
    /\ called = FALSE
    /\ out = <<>>
    /\ NoMatch /\ FreshStorage /\ NoHistory

\* the call returns
Return(name, result) ==
    /\ fn = name
    /\ ~called
    /\ called' = TRUE
    /\ out' = result
    /\ UNCHANGED <<fn, args, matchVars, storageVars, historyVars>>

Returned(name) == fn = name /\ called

\* ------------------------------------------------------------------------
\* rewards
\* ------------------------------------------------------------------------

MaxTotal == 9

TotalSamples ==
    Small(MaxTotal)
        \cup {N(9999), N(10000), N(12345), N(1000000007), SCORE_DECIMALS}
        \cup {DivSmall(UMax, 9999), AddN(DivSmall(UMax, 9999), N(1)), TwoTo255}
        \cup Below(UMax, 1)

BpsSamples ==
    {N(b) : b \in {0, 1, 2, 250, 3333, 5000, 9999, 10000, 10001, 20000}}
        \cup {UMax}

InitRewards == PureInit("rewards", TotalSamples \X BpsSamples)

CallRewards == Return("rewards", rewards(args[1], args[2]))

NextRewards == CallRewards

SpecRewards == InitRewards /\ [][NextRewards]_vars

\* the exact product total * resolver_bps fits in 256 bits
RewardsNoOverflow == Lt(MulN(args[1], args[2]), TwoTo256)

\* resolver_amount = floor(total * resolver_bps / 10000), said without a
\* division: 10000 * r <= total * bps < 10000 * (r + 1)
RewardsFloor ==
    /\ Le(MulN(out[2], N(10000)), MulN(args[1], args[2]))
    /\ Lt(MulN(args[1], args[2]), MulN(AddN(out[2], N(1)), N(10000)))

RewardsConserve == AddN(out[1], out[2]) = args[1]

RewardsSaturate == Le(N(10000), args[2]) => out = <<Zero, args[1]>>

\* C1 as stated: for every total and every resolver_bps the two amounts add
\* up to total; from 10000 bps on the result is (0, total); below 10000 bps
\* resolver_amount = floor(total * resolver_bps / 10000).
C1_AsStated ==
    Returned("rewards") =>
        /\ RewardsConserve
        /\ RewardsSaturate
        /\ (Lt(args[2], N(10000)) => RewardsFloor)

\* C1 amended: the two amounts always add up to total and from 10000 bps on
\* the result is (0, total); below 10000 bps resolver_amount is
\* floor(total * resolver_bps / 10000) whenever total * resolver_bps < 2^256.
C1_RewardsConservation ==
    Returned("rewards") =>
        /\ RewardsConserve
        /\ RewardsSaturate
        /\ (Lt(args[2], N(10000)) /\ RewardsNoOverflow => RewardsFloor)

\* a split below 10000 bps that rounds down and leaves both parties a share
C1_Witness ==
    /\ Returned("rewards")
    /\ args = <<N(7), N(3333)>>
    /\ out = <<N(5), N(2)>>

\* ------------------------------------------------------------------------
\* winner
\* ------------------------------------------------------------------------

MaxScore == 6

ScoreSamples ==
    Small(MaxScore)
        \cup {SCORE_DECIMALS, AddN(SCORE_DECIMALS, TIGHT_RANGE_BONUS), UMax}

InitWinner == PureInit("winner", ScoreSamples \X ScoreSamples)

CallWinner == Return("winner", winner(args[1], args[2]))

NextWinner == CallWinner

SpecWinner == InitWinner /\ [][NextWinner]_vars

\* C8: winner returns 1 (A) exactly when score_a >= score_b and 2 (B) exactly
\* when score_a < score_b; every tie, both scores zero included, goes to A.
C8_WinnerTieToA ==
    Returned("winner") =>
        /\ out \in {1, 2}
        /\ (out = 1) <=> ~Lt(args[1], args[2])
        /\ (out = 2) <=> Lt(args[1], args[2])
        /\ (args[1] = args[2] => out = 1)

\* the tie of two zero scores has gone to A
C8_Witness ==
    /\ Returned("winner")
    /\ args = <<Zero, Zero>>
    /\ out = 1

\* ------------------------------------------------------------------------
\* calculate_new_elo
\* ------------------------------------------------------------------------

MaxGap == 850

MaxFloorLoser == 140

EloBase == {100, 1000}

FloorWinners == {100, 1200, 1500}

\* a rating gap whose product with ELO_SCALE wraps to a small number
WrapGap == AddN(DivN(TwoTo256, N(ELO_SCALE)), N(1))

Extremes ==
    {Zero, N(100), N(1000), WrapGap, TwoTo255, SubN(UMax, N(33)),
     SubN(UMax, N(32)), SubN(UMax, N(1)), UMax}

EloPairs ==
    {<<N(r + d), N(r)>> : r \in EloBase, d \in 0..MaxGap}
        \cup {<<N(r), N(r + d)>> : r \in EloBase, d \in 1..MaxGap}
        \cup {<<N(w), N(l)>> : w \in FloorWinners, l \in 0..MaxFloorLoser}
        \cup (Extremes \X Extremes)

InitElo == PureInit("calculate_new_elo", EloPairs)

CallElo == Return("calculate_new_elo", calculate_new_elo(args[1], args[2]))

NextElo == CallElo

SpecElo == InitElo /\ [][NextElo]_vars

\* the new winner rating winner_elo + winner_gain fits in 256 bits
EloNoWrap == Lt(AddN(args[1], winner_gain(args[1], args[2])), TwoTo256)

\* C2 as stated: the new winner rating is strictly greater than
\* winner_rating for every pair of ratings.
C2_AsStated == Returned("calculate_new_elo") => Lt(args[1], out[1])

\* C2 amended: the gain is at least 1 for every pair, and the new winner
\* rating is strictly greater than winner_rating whenever winner_rating plus
\* the gain is below 2^256.
C2_WinnerIncreases ==
    Returned("calculate_new_elo") =>
        /\ Le(N(1), winner_gain(args[1], args[2]))
        /\ (EloNoWrap => Lt(args[1], out[1]))

\* an overwhelming favourite (expected score clamped at SCALE) has gained 1
C2_Witness ==
    /\ Returned("calculate_new_elo")
    /\ args = <<N(1850), N(1000)>>
    /\ out[1] = N(1851)

\* C3: the new loser rating is never below 100; it is exactly 100 when
\* loser_rating <= loser_loss + 100 and exactly loser_rating - loser_loss
\* otherwise; a loser at 100 stays at 100.
C3_LoserFloor ==
    Returned("calculate_new_elo") =>
        /\ Le(N(100), out[2])
        /\ (Le(args[2], AddN(loser_loss(args[1], args[2]), N(100)))
                => out[2] = N(100))
        /\ (Lt(AddN(loser_loss(args[1], args[2]), N(100)), args[2])
                => AddN(out[2], loser_loss(args[1], args[2])) = args[2])
        /\ (args[2] = N(100) => out[2] = N(100))

\* a loser already at the floor has stayed there
C3_Witness ==
    /\ Returned("calculate_new_elo")
    /\ args = <<N(1200), N(100)>>
    /\ out[2] = N(100)

\* C5 as stated: for every winner_rating < loser_rating the winner gains
\* strictly more than 16.
C5_AsStated ==
    Returned("calculate_new_elo") /\ Lt(args[1], args[2])
        => Lt(AddN(args[1], N(16)), out[1])

\* C5 amended: for every winner_rating < loser_rating whose new rating fits
\* in 256 bits the winner gains at least 16, and strictly more than 16 when
\* the deficit is at least 52 and deficit * 1000 is below 2^256.
C5_UnderdogGain ==
    Returned("calculate_new_elo") /\ Lt(args[1], args[2]) /\ EloNoWrap
        => /\ Le(AddN(args[1], N(16)), out[1])
           /\ ((/\ Le(AddN(args[1], N(52)), args[2])
                /\ Lt(MulN(SubN(args[2], args[1]), N(1000)), TwoTo256))
                   => Lt(AddN(args[1], N(16)), out[1]))

\* an underdog 400 points down has gained 24
C5_Witness ==
    /\ Returned("calculate_new_elo")
    /\ args = <<N(1000), N(1400)>>
    /\ out[1] = N(1024)

\* the floor of the loser's rating does not apply
EloNoFloor == Lt(AddN(loser_loss(args[1], args[2]), N(100)), args[2])

\* the sum of the two ratings has changed by at most 1
EloSumWithinOne ==
    /\ Le(AddN(out[1], out[2]), AddN(AddN(args[1], args[2]), N(1)))
    /\ Le(AddN(args[1], args[2]), AddN(AddN(out[1], out[2]), N(1)))

\* C10 as stated: for every pair where the loser's floor does not apply the
\* winner's gain and the loser's loss differ by at most 1, so the sum of the
\* two ratings changes by at most 1.
C10_AsStated ==
    Returned("calculate_new_elo") /\ EloNoFloor => EloSumWithinOne

\* C10 amended: the same for every pair where the loser's floor does not
\* apply and winner_rating plus the gain is below 2^256.
C10_NearZeroSum ==
    Returned("calculate_new_elo") /\ EloNoFloor /\ EloNoWrap
        => EloSumWithinOne

\* the forced gain of 1 against a loss of 0: the sum has grown by exactly 1
C10_Witness ==
    /\ Returned("calculate_new_elo")
    /\ args = <<N(1850), N(1000)>>
    /\ out = <<N(1851), N(1000)>>

\* ------------------------------------------------------------------------
\* The alternating-wins simulation: A beats B in the even rounds, B beats A
\* in the odd ones.
\* ------------------------------------------------------------------------

MaxRounds == 120

InitMatch ==
    /\ rating_a = N(1000)
    /\ rating_b = N(1000)
    /\ rounds = 0
    /\ NoCall /\ FreshStorage /\ NoHistory

Round ==
    /\ rounds < MaxRounds
    /\ \/ /\ rounds % 2 = 0
          /\ rating_a' = calculate_new_elo(rating_a, rating_b)[1]
          /\ rating_b' = calculate_new_elo(rating_a, rating_b)[2]
       \/ /\ rounds % 2 # 0
          /\ rating_b' = calculate_new_elo(rating_b, rating_a)[1]
          /\ rating_a' = calculate_new_elo(rating_b, rating_a)[2]
    /\ rounds' = rounds + 1
    /\ UNCHANGED <<callVars, storageVars, historyVars>>

NextMatch == Round

SpecMatch == InitMatch /\ [][NextMatch]_vars

InBand(r) == Le(N(990), r) /\ Le(r, N(1010))

\* C4: from 1000/1000, after 10 alternating rounds and after every even
\* number of rounds both ratings lie within [990, 1010].
C4_AlternatingBand ==
    (rounds = 10 \/ rounds % 2 = 0) => InBand(rating_a) /\ InBand(rating_b)

\* ten rounds have been played
C4_Witness ==
    /\ rounds = 10
    /\ InBand(rating_a) /\ InBand(rating_b)

\* ------------------------------------------------------------------------
\* fee_score
\* ------------------------------------------------------------------------

MaxFee == 3

MaxLp == 3

MaxDuration == 2

\* 2^128
TwoTo128 == ShiftLimbs(<<256>>, 8)

\* the largest x with x * 1e18 below 2^256
MaxScaled == DivN(UMax, SCORE_DECIMALS)

\* fees in USD with 8 decimals
FeeSamples ==
    Small(MaxFee)
        \cup {N(100000000), N(250000000), SCORE_DECIMALS, MaxScaled,
              AddN(MaxScaled, N(1))}

LpSamples ==
    Small(MaxLp)
        \cup {MulN(N(1000), N(100000000)), MulN(N(100000000), N(100000000)),
              TwoTo128}

DurationSamples == Small(MaxDuration) \cup {N(3600), N(86400), TwoTo128}

InitFee == PureInit("fee_score", FeeSamples \X LpSamples \X DurationSamples)

CallFee == Return("fee_score", fee_score(args[1], args[2], args[3]))

NextFee == CallFee

SpecFee == InitFee /\ [][NextFee]_vars

\* both calls returned and x < y
ScoreLt(x, y) == x # Panic /\ y # Panic /\ Lt(x, y)

\* both calls returned and x <= y
ScoreLe(x, y) == x # Panic /\ y # Panic /\ Le(x, y)

\* neither fees_usd * 1e18 nor lp_value_usd * duration wraps
FeeExact(fees_usd, lp_value_usd, duration) ==
    /\ Lt(MulN(fees_usd, SCORE_DECIMALS), TwoTo256)
    /\ Lt(MulN(lp_value_usd, duration), TwoTo256)

\* C6 as stated: for nonzero lp_value_usd and duration, raising fees_usd
\* alone yields a strictly larger score, and raising lp_value_usd or
\* duration alone yields a strictly smaller score.
C6_AsStated ==
    Returned("fee_score") /\ ~IsZero(args[2]) /\ ~IsZero(args[3]) =>
        /\ \A f \in FeeSamples :
              Lt(args[1], f) => ScoreLt(out, fee_score(f, args[2], args[3]))
        /\ \A v \in LpSamples :
              Lt(args[2], v) => ScoreLt(fee_score(args[1], v, args[3]), out)
        /\ \A d \in DurationSamples :
              Lt(args[3], d) => ScoreLt(fee_score(args[1], args[2], d), out)

\* C6 amended: for nonzero lp_value_usd and duration, and as long as
\* fees_usd * 1e18 and lp_value_usd * duration stay below 2^256, raising
\* fees_usd alone never yields a smaller score (and a strictly larger one
\* when lp_value_usd * duration <= 1e18), and raising lp_value_usd or
\* duration alone never yields a larger score.
C6_FeeMonotone ==
    Returned("fee_score") /\ ~IsZero(args[2]) /\ ~IsZero(args[3]) =>
        /\ \A f \in FeeSamples :
              (Lt(args[1], f) /\ FeeExact(f, args[2], args[3])) =>
                  /\ ScoreLe(out, fee_score(f, args[2], args[3]))
                  /\ (Le(MulN(args[2], args[3]), SCORE_DECIMALS) =>
                         ScoreLt(out, fee_score(f, args[2], args[3])))
        /\ \A v \in LpSamples :
              (Lt(args[2], v) /\ FeeExact(args[1], v, args[3])) =>
                  ScoreLe(fee_score(args[1], v, args[3]), out)
        /\ \A d \in DurationSamples :
              (Lt(args[3], d) /\ FeeExact(args[1], args[2], d)) =>
                  ScoreLe(fee_score(args[1], args[2], d), out)

\* 1 USD of fees on a 1000 USD position over an hour: doubling the position
\* halves the score, 2.5 times the fees make 2.5 times the score
C6_Witness ==
    /\ Returned("fee_score")
    /\ args = <<N(100000000), MulN(N(1000), N(100000000)), N(3600)>>
    /\ ~IsZero(out)
    /\ Lt(out, fee_score(N(250000000), args[2], args[3]))
    /\ Lt(fee_score(args[1], MulN(N(100000000), N(100000000)), args[3]), out)
    /\ Lt(fee_score(args[1], args[2], N(86400)), out)

\* ------------------------------------------------------------------------
\* range_score
\* ------------------------------------------------------------------------

MaxInRange == 3

MaxTotalTime == 3

MaxTick == 2

InRangeSamples ==
    Small(MaxInRange)
        \cup {N(1800), N(3600), N(86400), MaxScaled, AddN(MaxScaled, N(1)),
              UMax}

TotalTimeSamples == Small(MaxTotalTime) \cup {N(7), N(3600), N(86400)}

TickSamples == Small(MaxTick) \cup {N(50), N(99), N(100), N(101), UMax}

InitRange ==
    PureInit("range_score", InRangeSamples \X TotalTimeSamples \X TickSamples)

CallRange == Return("range_score", range_score(args[1], args[2], args[3]))

NextRange == CallRange

SpecRange == InitRange /\ [][NextRange]_vars

\* the exact base score floor(in_range_time * 1e18 / total_time)
ExactBase(in_range_time, total_time) ==
    DivN(MulN(in_range_time, SCORE_DECIMALS), total_time)

\* no step of range_score wraps
RangeExact(in_range_time, total_time, tick_distance) ==
    /\ Lt(MulN(in_range_time, SCORE_DECIMALS), TwoTo256)
    /\ Lt(MulN(ExactBase(in_range_time, total_time),
               range_bonus(tick_distance)), TwoTo256)
    /\ Lt(AddN(ExactBase(in_range_time, total_time),
               DivN(MulN(ExactBase(in_range_time, total_time),
                         range_bonus(tick_distance)), SCORE_DECIMALS)),
          TwoTo256)

\* the bonus is 20% of 1e18 at tick_distance 0, falls by 0.2% of 1e18 per
\* tick and is 0 from tick_distance 100 on
BonusLinear(tick_distance) ==
    IF Lt(tick_distance, N(100))
    THEN MulN(range_bonus(tick_distance), N(100))
             = MulN(MulN(N(200000000), N(1000000000)),
                    SubN(N(100), tick_distance))
    ELSE range_bonus(tick_distance) = Zero

\* C7 as stated: for fixed total_time > 0 and tick_distance a larger
\* in_range_time never yields a smaller score; for fixed in_range_time and
\* total_time a larger tick_distance never yields a larger score; the bonus
\* falls linearly from 20% at tick_distance 0 to 0 from 100 on.
C7_AsStated ==
    Returned("range_score") /\ ~IsZero(args[2]) =>
        /\ \A t \in InRangeSamples :
              Le(args[1], t) => Le(out, range_score(t, args[2], args[3]))
        /\ \A k \in TickSamples :
              Le(args[3], k) => Le(range_score(args[1], args[2], k), out)
        /\ BonusLinear(args[3])

\* C7 amended: the same, for the calls in which no step wraps:
\* in_range_time * 1e18, base_score * bonus and base_score + base_score *
\* bonus / 1e18 (taken at the larger in_range_time, respectively the smaller
\* tick_distance) stay below 2^256.
C7_RangeMonotone ==
    Returned("range_score") /\ ~IsZero(args[2]) =>
        /\ \A t \in InRangeSamples :
              (Le(args[1], t) /\ RangeExact(t, args[2], args[3])) =>
                  Le(out, range_score(t, args[2], args[3]))
        /\ \A k \in TickSamples :
              (Le(args[3], k) /\ RangeExact(args[1], args[2], args[3])) =>
                  Le(range_score(args[1], args[2], k), out)
        /\ BonusLinear(args[3])
        /\ (IsZero(args[3]) /\ RangeExact(args[1], args[2], args[3]) =>
               out = AddN(ExactBase(args[1], args[2]),
                          DivN(ExactBase(args[1], args[2]), N(5))))

\* half the time in range at tick distance 50: above the score of a shorter
\* stay and of a wider range, below that of the tightest range
C7_Witness ==
    /\ Returned("range_score")
    /\ args = <<N(1800), N(3600), N(50)>>
    /\ out = MulN(N(550000000), N(1000000000))
    /\ Lt(range_score(N(3), args[2], args[3]), out)
    /\ Lt(range_score(args[1], args[2], N(100)), out)
    /\ Lt(out, range_score(args[1], args[2], Zero))

\* ------------------------------------------------------------------------
\* The Leaderboard contract.
\* ------------------------------------------------------------------------

MaxBattles == 2

\* msg_sender is never Address::ZERO
Senders == Addr \ {ZERO_ADDRESS}

\* battle_value_usd, 8 decimals: every battle is worth 2.5 USD
ValueSamples == {N(250000000)}

Init == NoCall /\ NoMatch /\ FreshStorage /\ NoHistory

\* the part of the storage ensure_initialized works on
Ratings ==
    [initialized |-> initialized, elo_ratings |-> elo_ratings,
     player_count |-> player_count, default_sets |-> default_sets]

\* faulty variant of ensure_initialized: the initialized flag is not consulted
ensure_initialized_again(st, player) ==
    [st EXCEPT !.initialized[player] = TRUE,
               !.elo_ratings[player] = N(DEFAULT_ELO),
               !.player_count = UAdd(@, N(1)),
               !.default_sets[player] = @ + 1]

ensure_initialized(st, player) ==
    IF ~st.initialized[player]
    THEN [st EXCEPT !.initialized[player] = TRUE,
                    !.elo_ratings[player] = N(DEFAULT_ELO),
                    !.player_count = UAdd(@, N(1)),
                    !.default_sets[player] = @ + 1]
    ELSE st

\* the winner's rating is stored first, the loser's second
store_ratings(ratings, w, l, new) ==
    [[ratings EXCEPT ![w] = new[1]] EXCEPT ![l] = new[2]]

\* the winner's counter is incremented first, the loser's second
count_battles(counts, w, l) ==
    [[counts EXCEPT ![w] = UAdd(@, N(1))] EXCEPT ![l] = UAdd(@, N(1))]

\* record_result once both players are initialized
record_ratings(st, w, l) ==
    /\ initialized' = st.initialized
    /\ player_count' = st.player_count
    /\ default_sets' = st.default_sets
    /\ elo_ratings' =
           store_ratings(st.elo_ratings, w, l,
                         calculate_new_elo(st.elo_ratings[w], st.elo_ratings[l]))

record_result(sender, w, l, battle_value_usd) ==
    /\ sender = arena
    /\ battles < MaxBattles
    /\ record_ratings(ensure_initialized(ensure_initialized(Ratings, w), l), w, l)
    /\ wins' = [wins EXCEPT ![w] = UAdd(@, N(1))]
    /\ losses' = [losses EXCEPT ![l] = UAdd(@, N(1))]
    /\ total_battles' = count_battles(total_battles, w, l)
    /\ total_value_won' = [total_value_won EXCEPT ![w] = UAdd(@, battle_value_usd)]
    /\ seen' = seen \cup {w, l}
    /\ battles' = battles + 1
    /\ UNCHANGED <<arena, owner, callVars, matchVars>>

initialize(sender, new_arena, new_owner) ==
    /\ owner # ZERO_ADDRESS => sender = owner
    /\ arena' = new_arena
    /\ owner' = new_owner
    /\ UNCHANGED <<elo_ratings, wins, losses, total_battles, total_value_won,
                   initialized, player_count, seen, default_sets, battles,
                   callVars, matchVars>>

get_elo(player) ==
    IF ~initialized[player] THEN N(DEFAULT_ELO) ELSE elo_ratings[player]

get_player_count == player_count

RecordResult ==
    \E sender \in Senders, w \in Addr, l \in Addr, v \in ValueSamples :
        record_result(sender, w, l, v)

Initialize ==
    \E sender \in Senders, new_arena \in Addr, new_owner \in Addr :
        initialize(sender, new_arena, new_owner)

Next == Initialize \/ RecordResult

Spec == Init /\ [][Next]_vars

\* C9: a player's rating is set to the default 1000 only the first time the
\* player appears as winner or loser, player_count is the number of distinct
\* players seen so far, and get_elo returns 1000 for every never-seen player.
C9_DefaultOnce ==
    /\ \A p \in Addr :
          /\ default_sets[p] = (IF p \in seen THEN 1 ELSE 0)
          /\ initialized[p] <=> p \in seen
          /\ p \notin seen => get_elo(p) = N(1000)
    /\ get_player_count = N(Cardinality(seen))

\* two players have met twice, their ratings have moved off the default and
\* a third player has never been seen
C9_Witness ==
    \E p \in Addr, q \in Addr, r \in Addr :
        /\ p # q /\ seen = {p, q} /\ r \notin seen
        /\ total_battles[p] = N(2) /\ total_battles[q] = N(2)
        /\ get_elo(p) # N(1000)
        /\ get_elo(r) = N(1000)
        /\ get_player_count = N(2)

\* ------------------------------------------------------------------------
\* calculate_new_elo: the winner's gain
\* ------------------------------------------------------------------------

\* the winner is at least as strong as the loser and diff * scale does not
\* wrap
FavoriteExact ==
    /\ Le(args[2], args[1])
    /\ Lt(MulN(SubN(args[1], args[2]), N(ELO_SCALE)), TwoTo256)

\* C11 as stated: the unforced winner gain is zero only when expected_winner
\* == SCALE, so the minimum gain of 1 is forced only when the expected score
\* is clamped at SCALE.
C11_AsStated ==
    Returned("calculate_new_elo") /\ IsZero(raw_winner_gain(args[1], args[2]))
        => expected_winner(args[1], args[2]) = N(ELO_SCALE)

\* C11 amended: the unforced winner gain is zero exactly when expected_winner
\* >= 969, which covers the clamped score SCALE and the scores 969..999; the
\* gain is then forced to 1 and is the unforced gain otherwise.  Where
\* diff * SCALE does not wrap this is the case exactly when the winner's
\* advantage is at least 751.
C11_ForcedGain ==
    Returned("calculate_new_elo") =>
        /\ IsZero(raw_winner_gain(args[1], args[2]))
               <=> Le(N(969), expected_winner(args[1], args[2]))
        /\ Le(expected_winner(args[1], args[2]), N(ELO_SCALE))
        /\ winner_gain(args[1], args[2])
               = (IF Le(N(969), expected_winner(args[1], args[2]))
                  THEN N(1)
                  ELSE raw_winner_gain(args[1], args[2]))
        /\ (FavoriteExact =>
               (IsZero(raw_winner_gain(args[1], args[2]))
                    <=> Le(AddN(args[2], N(751)), args[1])))
        /\ (Lt(args[1], args[2]) => ~IsZero(raw_winner_gain(args[1], args[2])))

\* a favourite 751 points up: the expected score is 969, below SCALE, and
\* the gain has been forced to 1
C11_Witness ==
    /\ Returned("calculate_new_elo")
    /\ args = <<N(1751), N(1000)>>
    /\ expected_winner(args[1], args[2]) = N(969)
    /\ IsZero(raw_winner_gain(args[1], args[2]))
    /\ out[1] = N(1752)

\* the rating gaps of the calls a call is compared with
CompareGaps == {0, 1, 51, 52, 400, 750, 751, 799, 800, 850}

CompareBase == 5000

\* the calls a call is compared with
ComparePairs ==
    {<<N(CompareBase + d), N(CompareBase)>> : d \in CompareGaps}
        \cup {<<N(CompareBase), N(CompareBase + d)>> : d \in CompareGaps}
        \cup {<<WrapGap, Zero>>, <<Zero, WrapGap>>, <<UMax, Zero>>,
              <<Zero, UMax>>}

\* the advantage winner - loser of call p is at most that of call q
AdvLe(p, q) == Le(AddN(p[1], q[2]), AddN(q[1], p[2]))

\* |winner - loser| * scale does not wrap in call p
GapExact(p) ==
    Lt(MulN(IF Le(p[2], p[1]) THEN SubN(p[1], p[2]) ELSE SubN(p[2], p[1]),
            N(ELO_SCALE)),
       TwoTo256)

\* the gain new_winner_elo - winner_elo of the call that returned
Gain == USub(out[1], args[1])

\* the gain at equal ratings, 400 points down, 400 points up, and its bound
GainPoints ==
    /\ (args[1] = args[2] => Gain = N(16))
    /\ (args[2] = AddN(args[1], N(400)) => Gain = N(24))
    /\ (args[1] = AddN(args[2], N(400)) => Gain = N(8))
    /\ Le(Gain, N(32))

\* C12 as stated: of two calls the one with the larger advantage
\* winner_rating - loser_rating never gains more; the gain is 16 at equal
\* ratings, 24 at a 400-point deficit, 8 at a 400-point advantage, at most
\* 32, and 1 for extreme advantages (from 800 on, where the expected score
\* is clamped).
C12_AsStated ==
    Returned("calculate_new_elo") =>
        /\ \A q \in ComparePairs :
              /\ AdvLe(args, q) => Le(winner_gain(q[1], q[2]), Gain)
              /\ AdvLe(q, args) => Le(Gain, winner_gain(q[1], q[2]))
        /\ GainPoints
        /\ (Le(AddN(args[2], N(800)), args[1]) => Gain = N(1))

\* C12 amended: the same for the calls in which |winner_rating -
\* loser_rating| * SCALE stays below 2^256; the gain is between 1 and 32 in
\* every call.
C12_GainMonotone ==
    Returned("calculate_new_elo") =>
        /\ \A q \in ComparePairs :
              GapExact(args) /\ GapExact(q) =>
                  /\ AdvLe(args, q) => Le(winner_gain(q[1], q[2]), Gain)
                  /\ AdvLe(q, args) => Le(Gain, winner_gain(q[1], q[2]))
        /\ GainPoints
        /\ Le(N(1), Gain)
        /\ (GapExact(args) /\ Le(AddN(args[2], N(800)), args[1])
                => Gain = N(1))

\* a favourite 400 points up has gained 8: less than at equal ratings and
\* than an underdog 400 points down, more than a favourite 800 points up
C12_Witness ==
    /\ Returned("calculate_new_elo")
    /\ args = <<N(1400), N(1000)>>
    /\ Gain = N(8)
    /\ winner_gain(N(CompareBase), N(CompareBase)) = N(16)
    /\ winner_gain(N(CompareBase), N(CompareBase + 400)) = N(24)
    /\ winner_gain(N(CompareBase + 800), N(CompareBase)) = N(1)

\* ------------------------------------------------------------------------
\* record_result: the ratings before and after an accepted call
\* ------------------------------------------------------------------------

\* the winner's stored rating has risen above the winner's rating before the
\* call, the loser's has not risen above the loser's rating before the call
RatingsMoved(w, l) ==
    /\ Lt(get_elo(w), elo_ratings'[w])
    /\ Le(elo_ratings'[l], get_elo(l))

\* C13 as stated: for any winner and loser addresses, after an accepted
\* record_result(winner, loser, value) the winner's stored rating is strictly
\* greater than the winner's rating before the call, and the loser's stored
\* rating is not greater than the loser's rating before the call.
C13_AsStated ==
    [][\A sender \in Senders, w \in Addr, l \in Addr, v \in ValueSamples :
           record_result(sender, w, l, v) => RatingsMoved(w, l)]_vars

\* C13 for two different players: the statement holds whenever winner and
\* loser are not the same address.
C13_DistinctPlayers ==
    [][\A sender \in Senders, w \in Addr, l \in Addr, v \in ValueSamples :
           record_result(sender, w, l, v) /\ w # l => RatingsMoved(w, l)]_vars

\* a player recorded as winner and loser of the same battle: one win, one
\* loss, and the stored rating has fallen from 1000 to 984
C13_Witness ==
    \E p \in Addr :
        /\ battles = 1
        /\ seen = {p}
        /\ wins[p] = N(1) /\ losses[p] = N(1)
        /\ total_battles[p] = N(2)
        /\ elo_ratings[p] = N(984)

====
